---- MODULE Spec2Model ----
(***************************************************************************)
(* Agent behaviour state machine of Herding Cats.                          *)
(*                                                                         *)
(* The repository holds two revisions of the Game component: the current   *)
(* one (src/components/Game.tsx, with the herding dog) and the prior one   *)
(* (second file of src/unnamed/part_000, whose GameManager owns the        *)
(* convinced timer, the read-time countdown and the eviction).  The        *)
(* variable build says which revision is mounted; it never changes.        *)
(*                                                                         *)
(* Geometry: the ground plane is modelled by a line.  One length unit is   *)
(* 0.1 world units, so the code's 0.1 / 0.5 / 1.0 / 2 thresholds are the   *)
(* integers 1 / 5 / 10 / 20 and a radius of 1.5 is 15.  An agent's stride  *)
(* per frame is one unit.  Time is counted in whole seconds.               *)
(*                                                                         *)
(* The player can click an agent, the ground, and submit the dialogue      *)
(* form at any time the interface offers it; the player's own walking is   *)
(* not modelled.  The judge is an environment that streams partial         *)
(* objects and then ends the stream or fails.                              *)
(***************************************************************************)
EXTENDS Integers, Sequences, FiniteSets, TLC

\* ---------------------------------------------------------------- bounds
FrameDelta == 2        \* seconds between two rendered frames
MaxSends == 2          \* judge calls issued in a session of one agent
MaxPairSends == 1      \* judge calls issued in a session of two agents
MaxDwell == 3          \* largest dwell time drawn on arrival (from MinDwell)
ReplyWords == 1        \* words of a reply of the judge

\* ------------------------------------------------------- program constants
ArriveSlack == 5
TargetSlack == 10
SnapTolerance == 1
StayDuration == 30
SnarkyThreshold == 5
DwellComplete == 2
MinDwell == 3
MinReadTime == 2
ErrorReadTime == 3
DogErrorReadTime == 2
DogReach == 20
DogShortCooldown == 2
DogLongCooldown == 10
DogMessageTime == 3
BoundaryLimit == 230
DogStart == 0

Null == 0
Deltas == {FrameDelta}

Abs(x) == IF x < 0 THEN -x ELSE x
Max(a, b) == IF a >= b THEN a ELSE b
Min(a, b) == IF a <= b THEN a ELSE b
Sign(x) == IF x > 0 THEN 1 ELSE IF x < 0 THEN -1 ELSE 0

\* The waypoint registry: the target and two ordinary waypoints, with the
\* radii of the first three configured waypoints (1.5, 1.5, 2.0), placed
\* on the line.
waypoints ==
  [w \in {1, 2, 3} |->
     CASE w = 1 -> [position |-> 0,  isTarget |-> TRUE,  radius |-> 15]
       [] w = 2 -> [position |-> 45, isTarget |-> FALSE, radius |-> 15]
       [] w = 3 -> [position |-> 50, isTarget |-> FALSE, radius |-> 20]]

WaypointIds == DOMAIN waypoints
TargetWaypointId == CHOOSE w \in WaypointIds : waypoints[w].isTarget
NonTargetIds == {w \in WaypointIds : ~waypoints[w].isTarget}

\* An id that is a number but names no configured waypoint.
UnknownWaypointId == 9

\* Per-frame stride of an agent and of the dog, in length units.
NpcSpeed == 1
DogSpeed == 2

calculateDistance(pos1, pos2) == Abs(pos2 - pos1)

\* Read time of a text: 0.15 s per word, at least 2 s.
calculateReadTime(wordCount) == Max(MinReadTime, (wordCount * 15) \div 100)

\* conversationHistory entries
UserMsg      == [role |-> "user", content |-> "msg"]
DogTaggedMsg == [role |-> "user", content |-> "[Dog]: woof"]
DogPlainMsg  == [role |-> "user", content |-> "woof"]
ReplyMsg     == [role |-> "assistant", content |-> "reply"]
DefaultMsg   == [role |-> "assistant", content |-> "I'm not sure how to respond to that."]
FallbackMsg  == [role |-> "assistant", content |-> "Sorry, I'm having trouble understanding."]
DogFallbackMsg == [role |-> "assistant", content |-> "Meow?"]
FarewellMsg  == [role |-> "assistant", content |-> "farewell"]

\* Where the agents stand when the session starts, and the positions the
\* restart draws from (one of them within the win distance of the target).
InitialPosition(n) == IF n = 1 THEN 27 ELSE 28
RestartPositions == {22, 27}

VARIABLES build, mounted, npcs, dog, gameWon, calls, sent, dogTimeouts

vars == <<build, mounted, npcs, dog, gameWon, calls, sent, dogTimeouts>>

\* The agents of the session (the ids of the npcs list).
NPCs == DOMAIN npcs

\* aiResponse before any partial object has arrived (null).
NoResponse == [present |-> FALSE, message |-> FALSE, newTarget |-> Null]

InitialNpc(n) ==
  [position |-> InitialPosition(n),
   currentWaypoint |-> Null,
   targetWaypoint |-> Null,
   isInteracting |-> FALSE,
   dwellTime |-> 0,
   lastWaypoint |-> Null,
   conversationHistory |-> <<>>,
   aiResponse |-> NoResponse,
   isTyping |-> FALSE,
   isConvinced |-> FALSE,
   convincedTimer |-> 0,
   snarkyComment |-> FALSE,
   readTimeRemaining |-> 0,
   responseComplete |-> FALSE,
   convincedThroughDialogue |-> FALSE]

InitialDog ==
  [position |-> DogStart,
   targetCatId |-> Null,
   isInteracting |-> FALSE,
   currentMessage |-> FALSE,
   messageTimer |-> 0,
   cooldownTimer |-> 0]

NoCall == [npc |-> Null, conversationHistory |-> <<>>, from |-> "none",
           stage |-> "none", newTarget |-> Null]

InitWith(ids, builds) ==
  /\ build \in builds
  /\ mounted = FALSE
  /\ npcs = [n \in ids |-> InitialNpc(n)]
  /\ dog = InitialDog
  /\ gameWon = FALSE
  /\ calls = [c \in 1..MaxSends |-> NoCall]
  /\ sent = 0
  /\ dogTimeouts = 0

\* A session of one agent under either revision, and a session of two
\* agents under the prior revision.
Init == InitWith({1}, {"current", "prior"})
InitPair == InitWith({1, 2}, {"prior"})

\* ------------------------------------------------------------ win check
AtTargetPosition(npc) ==
  calculateDistance(npc.position, waypoints[TargetWaypointId].position)
     <= waypoints[TargetWaypointId].radius + TargetSlack

AllNpcsAtTarget(ns) == \A n \in DOMAIN ns : ns[n].isConvinced /\ AtTargetPosition(ns[n])

\* Variant of WinCheck that does not look at isConvinced.
WinCheckByPosition(won, ns) ==
  IF won THEN TRUE
  ELSE (\A n \in DOMAIN ns : AtTargetPosition(ns[n])) /\ Cardinality(DOMAIN ns) > 0

\* Variant of WinCheck that re-evaluates after the round is won.
WinCheckUnlatched(won, ns) ==
  AllNpcsAtTarget(ns) /\ Cardinality(DOMAIN ns) > 0

\* The effect that runs after every change of npcs.
WinCheck(won, ns) ==
  IF won THEN TRUE
  ELSE AllNpcsAtTarget(ns) /\ Cardinality(DOMAIN ns) > 0

\* ------------------------------------------------- NPC component's frame
\* Unit direction from pos to dest (the normalised displacement).
Direction(pos, dest) == Sign(dest - pos)

\* Variant of NpcFrame that moves the agent during a dialogue too.
NpcFrameWhileTalking(npc) ==
  IF npc.targetWaypoint = Null THEN npc
  ELSE IF npc.targetWaypoint \notin WaypointIds THEN npc
  ELSE LET wp == waypoints[npc.targetWaypoint]
           distance == calculateDistance(npc.position, wp.position)
       IN IF distance <= wp.radius + ArriveSlack
          THEN IF Abs(distance - wp.radius) > SnapTolerance
               THEN [npc EXCEPT !.position =
                       wp.position - Direction(npc.position, wp.position) * wp.radius]
               ELSE npc
          ELSE [npc EXCEPT !.position =
                       npc.position + Direction(npc.position, wp.position) * NpcSpeed]

\* Variant of NpcFrame that takes a waypoint it cannot find to lie at the
\* origin.
NpcFrameTowardUnknown(npc) ==
  IF npc.isInteracting THEN npc
  ELSE IF npc.targetWaypoint = Null THEN npc
  ELSE IF npc.targetWaypoint \notin WaypointIds
  THEN [npc EXCEPT !.position = npc.position + Direction(npc.position, 0) * NpcSpeed]
  ELSE LET wp == waypoints[npc.targetWaypoint]
           distance == calculateDistance(npc.position, wp.position)
       IN IF distance <= wp.radius + ArriveSlack
          THEN IF Abs(distance - wp.radius) > SnapTolerance
               THEN [npc EXCEPT !.position =
                       wp.position - Direction(npc.position, wp.position) * wp.radius]
               ELSE npc
          ELSE [npc EXCEPT !.position =
                       npc.position + Direction(npc.position, wp.position) * NpcSpeed]

\* NPC component, useFrame: moves the agent toward its targetWaypoint and
\* puts it on the waypoint's radius once it is close.  It writes the
\* position of the agent record in place.
NpcFrame(npc) ==
  IF npc.isInteracting THEN npc
  ELSE IF npc.targetWaypoint = Null THEN npc
  ELSE IF npc.targetWaypoint \notin WaypointIds THEN npc
  ELSE LET wp == waypoints[npc.targetWaypoint]
           distance == calculateDistance(npc.position, wp.position)
       IN IF distance <= wp.radius + ArriveSlack
          THEN IF Abs(distance - wp.radius) > SnapTolerance
               THEN [npc EXCEPT !.position =
                       wp.position - Direction(npc.position, wp.position) * wp.radius]
               ELSE npc
          ELSE [npc EXCEPT !.position =
                       npc.position + Direction(npc.position, wp.position) * NpcSpeed]

\* ------------------------------------- GameManager, prior revision
\* Variant of PriorBranch that takes arrival at the target alone as persuasion.
PriorBranchByProximity(npc, delta) ==
  IF npc.isConvinced /\ ~AtTargetPosition(npc) THEN "evict"
  ELSE IF npc.isInteracting /\ npc.responseComplete /\ npc.readTimeRemaining > 0
  THEN IF Max(0, npc.readTimeRemaining - delta) <= 0 /\ ~npc.isTyping
       THEN "autoclose" ELSE "read"
  ELSE IF npc.isInteracting /\ ~npc.responseComplete THEN "skip"
  ELSE IF npc.isConvinced /\ AtTargetPosition(npc)
  THEN IF npc.convincedTimer - delta <= 0 THEN "expire" ELSE "stay"
  ELSE IF /\ npc.targetWaypoint # Null
          /\ npc.targetWaypoint \in WaypointIds
          /\ calculateDistance(npc.position, waypoints[npc.targetWaypoint].position)
               <= waypoints[npc.targetWaypoint].radius + ArriveSlack
  THEN IF waypoints[npc.targetWaypoint].isTarget
       THEN "convince"
       ELSE IF npc.dwellTime + delta >= DwellComplete THEN "reselect" ELSE "dwell"
  ELSE "none"

\* Variant of PriorBranch without the test for a convinced agent that has
\* left the target's zone.
PriorBranchWithoutEviction(npc, delta) ==
  IF npc.isInteracting /\ npc.responseComplete /\ npc.readTimeRemaining > 0
  THEN IF Max(0, npc.readTimeRemaining - delta) <= 0 /\ ~npc.isTyping
       THEN "autoclose" ELSE "read"
  ELSE IF npc.isInteracting /\ ~npc.responseComplete THEN "skip"
  ELSE IF npc.isConvinced /\ AtTargetPosition(npc)
  THEN IF npc.convincedTimer - delta <= 0 THEN "expire" ELSE "stay"
  ELSE IF /\ npc.targetWaypoint # Null
          /\ npc.targetWaypoint \in WaypointIds
          /\ calculateDistance(npc.position, waypoints[npc.targetWaypoint].position)
               <= waypoints[npc.targetWaypoint].radius + ArriveSlack
  THEN IF waypoints[npc.targetWaypoint].isTarget /\ npc.convincedThroughDialogue
       THEN "convince"
       ELSE IF npc.dwellTime + delta >= DwellComplete THEN "reselect" ELSE "dwell"
  ELSE "none"

\* Variant of PriorBranch whose convinced timer expires only below zero.
PriorBranchExpiringLate(npc, delta) ==
  IF npc.isConvinced /\ ~AtTargetPosition(npc) THEN "evict"
  ELSE IF npc.isInteracting /\ npc.responseComplete /\ npc.readTimeRemaining > 0
  THEN IF Max(0, npc.readTimeRemaining - delta) <= 0 /\ ~npc.isTyping
       THEN "autoclose" ELSE "read"
  ELSE IF npc.isInteracting /\ ~npc.responseComplete THEN "skip"
  ELSE IF npc.isConvinced /\ AtTargetPosition(npc)
  THEN IF npc.convincedTimer - delta < 0 THEN "expire" ELSE "stay"
  ELSE IF /\ npc.targetWaypoint # Null
          /\ npc.targetWaypoint \in WaypointIds
          /\ calculateDistance(npc.position, waypoints[npc.targetWaypoint].position)
               <= waypoints[npc.targetWaypoint].radius + ArriveSlack
  THEN IF waypoints[npc.targetWaypoint].isTarget /\ npc.convincedThroughDialogue
       THEN "convince"
       ELSE IF npc.dwellTime + delta >= DwellComplete THEN "reselect" ELSE "dwell"
  ELSE "none"

\* Which branch of the per-agent update is taken.
PriorBranch(npc, delta) ==
  IF npc.isConvinced /\ ~AtTargetPosition(npc) THEN "evict"
  ELSE IF npc.isInteracting /\ npc.responseComplete /\ npc.readTimeRemaining > 0
  THEN IF Max(0, npc.readTimeRemaining - delta) <= 0 /\ ~npc.isTyping
       THEN "autoclose" ELSE "read"
  ELSE IF npc.isInteracting /\ ~npc.responseComplete THEN "skip"
  ELSE IF npc.isConvinced /\ AtTargetPosition(npc)
  THEN IF npc.convincedTimer - delta <= 0 THEN "expire" ELSE "stay"
  ELSE IF /\ npc.targetWaypoint # Null
          /\ npc.targetWaypoint \in WaypointIds
          /\ calculateDistance(npc.position, waypoints[npc.targetWaypoint].position)
               <= waypoints[npc.targetWaypoint].radius + ArriveSlack
  THEN IF waypoints[npc.targetWaypoint].isTarget /\ npc.convincedThroughDialogue
       THEN "convince"
       ELSE IF npc.dwellTime + delta >= DwellComplete THEN "reselect" ELSE "dwell"
  ELSE "none"

\* Variant of PriorCandidates whose selection at the expiry of the
\* convinced timer draws from every waypoint.
PriorCandidatesWithTarget(npc, delta) ==
  LET branch == PriorBranch(npc, delta)
      availableWaypoints ==
        {w \in WaypointIds : /\ ~waypoints[w].isTarget
                             /\ w # npc.targetWaypoint
                             /\ w # npc.lastWaypoint}
  IN IF branch = "expire" THEN WaypointIds
     ELSE IF branch = "reselect"
     THEN IF availableWaypoints # {} THEN availableWaypoints
          ELSE {w \in WaypointIds : ~waypoints[w].isTarget /\ w # npc.targetWaypoint}
     ELSE {}

\* The waypoints the random selection of this update draws from
\* (empty when the update selects nothing).
PriorCandidates(npc, delta) ==
  LET branch == PriorBranch(npc, delta)
      availableWaypoints ==
        {w \in WaypointIds : /\ ~waypoints[w].isTarget
                             /\ w # npc.targetWaypoint
                             /\ w # npc.lastWaypoint}
  IN IF branch = "expire" THEN NonTargetIds
     ELSE IF branch = "reselect"
     THEN IF availableWaypoints # {} THEN availableWaypoints
          ELSE {w \in WaypointIds : ~waypoints[w].isTarget /\ w # npc.targetWaypoint}
     ELSE {}

\* Variant of GameManagerPrior whose convinced agent says nothing when its
\* timer runs low.
GameManagerPriorSilent(npc, delta, randomWaypoint) ==
  LET branch == PriorBranch(npc, delta)
  IN CASE branch = "evict" ->
            [npc EXCEPT !.isConvinced = FALSE, !.convincedTimer = 0,
                        !.snarkyComment = FALSE, !.convincedThroughDialogue = FALSE]
       [] branch = "autoclose" ->
            [npc EXCEPT !.readTimeRemaining = 0, !.isInteracting = FALSE,
                        !.responseComplete = FALSE]
       [] branch = "read" ->
            [npc EXCEPT !.readTimeRemaining = Max(0, npc.readTimeRemaining - delta)]
       [] branch = "expire" ->
            [npc EXCEPT !.isConvinced = FALSE, !.convincedTimer = 0,
                        !.snarkyComment = FALSE,
                        !.targetWaypoint = randomWaypoint,
                        !.lastWaypoint = npc.targetWaypoint,
                        !.currentWaypoint = Null,
                        !.convincedThroughDialogue = FALSE,
                        !.conversationHistory = Append(npc.conversationHistory, FarewellMsg)]
       [] branch = "stay" ->
            [npc EXCEPT !.convincedTimer = npc.convincedTimer - delta]
       [] branch = "convince" ->
            [npc EXCEPT !.isConvinced = TRUE, !.convincedTimer = StayDuration,
                        !.snarkyComment = FALSE, !.dwellTime = 0]
       [] branch = "reselect" ->
            [npc EXCEPT !.dwellTime = 0,
                        !.currentWaypoint = npc.targetWaypoint,
                        !.lastWaypoint = npc.targetWaypoint,
                        !.targetWaypoint = randomWaypoint]
       [] branch = "dwell" ->
            [npc EXCEPT !.dwellTime = npc.dwellTime + delta]
       [] OTHER -> npc

GameManagerPrior(npc, delta, randomWaypoint) ==
  LET branch == PriorBranch(npc, delta)
  IN CASE branch = "evict" ->
            [npc EXCEPT !.isConvinced = FALSE, !.convincedTimer = 0,
                        !.snarkyComment = FALSE, !.convincedThroughDialogue = FALSE]
       [] branch = "autoclose" ->
            [npc EXCEPT !.readTimeRemaining = 0, !.isInteracting = FALSE,
                        !.responseComplete = FALSE]
       [] branch = "read" ->
            [npc EXCEPT !.readTimeRemaining = Max(0, npc.readTimeRemaining - delta)]
       [] branch = "expire" ->
            [npc EXCEPT !.isConvinced = FALSE, !.convincedTimer = 0,
                        !.snarkyComment = FALSE,
                        !.targetWaypoint = randomWaypoint,
                        !.lastWaypoint = npc.targetWaypoint,
                        !.currentWaypoint = Null,
                        !.convincedThroughDialogue = FALSE,
                        !.conversationHistory = Append(npc.conversationHistory, FarewellMsg)]
       [] branch = "stay" ->
            [npc EXCEPT !.convincedTimer = npc.convincedTimer - delta,
                        !.snarkyComment =
                           IF npc.convincedTimer - delta <= SnarkyThreshold /\ ~npc.snarkyComment
                           THEN TRUE ELSE npc.snarkyComment]
       [] branch = "convince" ->
            [npc EXCEPT !.isConvinced = TRUE, !.convincedTimer = StayDuration,
                        !.snarkyComment = FALSE, !.dwellTime = 0]
       [] branch = "reselect" ->
            [npc EXCEPT !.dwellTime = 0,
                        !.currentWaypoint = npc.targetWaypoint,
                        !.lastWaypoint = npc.targetWaypoint,
                        !.targetWaypoint = randomWaypoint]
       [] branch = "dwell" ->
            [npc EXCEPT !.dwellTime = npc.dwellTime + delta]
       [] OTHER -> npc

\* ------------------------------------- GameManager, current revision
CurrentBranch(npc) ==
  IF npc.isInteracting THEN "skip"
  ELSE IF npc.isConvinced
  THEN IF calculateDistance(npc.position, waypoints[TargetWaypointId].position)
            < waypoints[TargetWaypointId].radius
       THEN "skip" ELSE "toTarget"
  ELSE IF npc.currentWaypoint # Null
  THEN IF npc.currentWaypoint \notin WaypointIds THEN "skip"
       ELSE IF npc.dwellTime > 0 THEN "dwell" ELSE "reselect"
  ELSE IF npc.targetWaypoint # Null
  THEN IF npc.targetWaypoint \notin WaypointIds THEN "skip"
       ELSE IF calculateDistance(npc.position, waypoints[npc.targetWaypoint].position)
                 < waypoints[npc.targetWaypoint].radius
            THEN "arrive" ELSE "move"
  ELSE "skip"

CurrentCandidates(npc) ==
  IF CurrentBranch(npc) = "reselect"
  THEN {w \in WaypointIds : w # npc.currentWaypoint /\ w # npc.lastWaypoint}
  ELSE {}

GameManagerCurrent(npc, delta, randomWaypoint, dwell) ==
  LET branch == CurrentBranch(npc)
  IN CASE branch = "toTarget" ->
            [npc EXCEPT !.position = npc.position
                 + Direction(npc.position, waypoints[TargetWaypointId].position) * NpcSpeed]
       [] branch = "dwell" ->
            [npc EXCEPT !.dwellTime = npc.dwellTime - delta]
       [] branch = "reselect" ->
            [npc EXCEPT !.targetWaypoint = randomWaypoint,
                        !.currentWaypoint = Null,
                        !.lastWaypoint = npc.currentWaypoint]
       [] branch = "arrive" ->
            [npc EXCEPT !.currentWaypoint = npc.targetWaypoint,
                        !.targetWaypoint = Null,
                        !.dwellTime = dwell]
       [] branch = "move" ->
            [npc EXCEPT !.position = npc.position
                 + Direction(npc.position, waypoints[npc.targetWaypoint].position) * NpcSpeed]
       [] OTHER -> npc

\* ------------------------------------------------------------ DogManager
\* seen is the npcs value of the last render, with the positions the NPC
\* frames wrote in place.
DogTimers(d, delta) ==
  LET cooled == IF d.cooldownTimer > 0
                THEN [d EXCEPT !.cooldownTimer = d.cooldownTimer - delta] ELSE d
  IN IF cooled.messageTimer > 0
     THEN [cooled EXCEPT !.messageTimer = cooled.messageTimer - delta,
                         !.currentMessage =
                            IF cooled.messageTimer - delta <= 0 THEN FALSE
                            ELSE cooled.currentMessage]
     ELSE cooled

availableCats(seen) ==
  {n \in NPCs : /\ ~seen[n].isConvinced
                /\ ~seen[n].isInteracting
                /\ ~seen[n].convincedThroughDialogue}

\* Variant of DogCandidates that does not wait for the cooldown.
DogCandidatesIgnoringCooldown(d, seen, delta) ==
  LET newDog == DogTimers(d, delta)
  IN IF ~newDog.isInteracting /\ newDog.targetCatId = Null
     THEN availableCats(seen) ELSE {}

\* Variant of DogCandidates that selects a target while the dog is talking.
DogCandidatesWhileInteracting(d, seen, delta) ==
  LET newDog == DogTimers(d, delta)
  IN IF newDog.targetCatId = Null /\ newDog.cooldownTimer <= 0
     THEN availableCats(seen) ELSE {}

\* The cats the dog's random target selection draws from in this frame.
DogCandidates(d, seen, delta) ==
  LET newDog == DogTimers(d, delta)
  IN IF ~newDog.isInteracting /\ newDog.targetCatId = Null /\ newDog.cooldownTimer <= 0
     THEN availableCats(seen) ELSE {}

DogAcquire(d, seen, delta, randomCat) ==
  LET newDog == DogTimers(d, delta)
  IN IF DogCandidates(d, seen, delta) # {}
     THEN [newDog EXCEPT !.targetCatId = randomCat] ELSE newDog

\* Variant of DogTargetInvalid that does not look at the player's dialogue.
DogTargetInvalidIgnoringDialogue(cat) ==
  cat.isConvinced \/ cat.convincedThroughDialogue

DogTargetInvalid(cat) ==
  cat.isInteracting \/ cat.isConvinced \/ cat.convincedThroughDialogue

\* The cat the dog starts an interaction with in this frame, or Null.
DogInteractsWith(d, seen, delta, randomCat) ==
  LET newDog == DogAcquire(d, seen, delta, randomCat)
  IN IF newDog.isInteracting \/ newDog.targetCatId = Null THEN Null
     ELSE IF DogTargetInvalid(seen[newDog.targetCatId]) THEN Null
     ELSE IF calculateDistance(newDog.position, seen[newDog.targetCatId].position) < DogReach
          THEN newDog.targetCatId ELSE Null

Clamp(x) == Max(-BoundaryLimit, Min(BoundaryLimit, x))

\* Variant of DogManagerStep that keeps the target when it starts to talk.
DogManagerStepKeepingTarget(d, seen, delta, randomCat) ==
  LET newDog == DogAcquire(d, seen, delta, randomCat)
  IN IF newDog.isInteracting THEN newDog
     ELSE IF newDog.targetCatId = Null THEN newDog
     ELSE LET targetCat == seen[newDog.targetCatId]
          IN IF DogTargetInvalid(targetCat)
             THEN [newDog EXCEPT !.targetCatId = Null, !.cooldownTimer = DogShortCooldown]
             ELSE IF calculateDistance(newDog.position, targetCat.position) < DogReach
             THEN [newDog EXCEPT !.isInteracting = TRUE,
                                 !.currentMessage = TRUE,
                                 !.messageTimer = DogMessageTime,
                                 !.cooldownTimer = DogLongCooldown]
             ELSE [newDog EXCEPT !.position =
                     Clamp(newDog.position
                           + Direction(newDog.position, targetCat.position) * DogSpeed)]

DogManagerStep(d, seen, delta, randomCat) ==
  LET newDog == DogAcquire(d, seen, delta, randomCat)
  IN IF newDog.isInteracting THEN newDog
     ELSE IF newDog.targetCatId = Null THEN newDog
     ELSE LET targetCat == seen[newDog.targetCatId]
          IN IF DogTargetInvalid(targetCat)
             THEN [newDog EXCEPT !.targetCatId = Null, !.cooldownTimer = DogShortCooldown]
             ELSE IF calculateDistance(newDog.position, targetCat.position) < DogReach
             THEN [newDog EXCEPT !.isInteracting = TRUE,
                                 !.currentMessage = TRUE,
                                 !.messageTimer = DogMessageTime,
                                 !.cooldownTimer = DogLongCooldown,
                                 !.targetCatId = Null]
             ELSE [newDog EXCEPT !.position =
                     Clamp(newDog.position
                           + Direction(newDog.position, targetCat.position) * DogSpeed)]

\* ------------------------------------------------------------ judge calls
\* A call in flight: the agent it is for, the history processNPCInteraction
\* returned (the caller's snapshot plus the message), who sent it, how far
\* its stream is, and the newTarget of the last partial it delivered.
NewCall(n, history, sender) ==
  [npc |-> n, conversationHistory |-> history, from |-> sender,
   stage |-> "sent", newTarget |-> Null]

\* The k-th call of the session is calls[k].
SendBudget == IF Cardinality(NPCs) = 1 THEN MaxSends ELSE MaxPairSends
CanSend == sent < SendBudget

\* The newTarget values the judge returns: none, the target, an ordinary
\* waypoint, a number that is no waypoint.
JudgeTargets == {Null, TargetWaypointId, 2, UnknownWaypointId}

\* Partial objects of a stream.
ThinkingPartial == [present |-> TRUE, message |-> FALSE, newTarget |-> Null]
ResultPartial(t) == [present |-> TRUE, message |-> TRUE, newTarget |-> t]

IsNumber(t) == t # Null

\* ---------------------------------------------------------------- actions
\* Mount effect: every agent without a target gets a random waypoint that
\* is not the target.
InitialSelection(npc, randomWaypoint) ==
  IF npc.targetWaypoint # Null THEN npc
  ELSE [npc EXCEPT !.targetWaypoint = randomWaypoint]

InitializeNpcs ==
  /\ ~mounted
  /\ \E sel \in [NPCs -> NonTargetIds] :
        npcs' = [n \in NPCs |-> InitialSelection(npcs[n], sel[n])]
  /\ mounted' = TRUE
  /\ gameWon' = WinCheck(gameWon, npcs')
  /\ UNCHANGED <<build, dog, calls, sent, dogTimeouts>>

\* handleDogCatInteraction, up to the call: the dog's line is appended.
DogMessageSent(npc) ==
  [npc EXCEPT !.conversationHistory = Append(npc.conversationHistory, DogTaggedMsg),
              !.isTyping = TRUE,
              !.responseComplete = FALSE,
              !.readTimeRemaining = 0]

\* One rendered frame: the NPC frames, the GameManager update, the
\* DogManager update with the interaction it starts, and the win check.
Tick(delta) ==
  /\ mounted
  /\ LET moved == [n \in NPCs |-> NpcFrame(npcs[n])]
         allConvinced == \A k \in NPCs : npcs[k].isConvinced
         \* what the one random draw of an agent's update may return
         draws(n) ==
           IF build = "prior"
           THEN PriorCandidates(moved[n], delta)
           ELSE IF allConvinced THEN {}
           ELSE IF CurrentBranch(moved[n]) = "arrive" THEN MinDwell..MaxDwell
           ELSE CurrentCandidates(moved[n])
         dogRuns == build = "current" /\ ~gameWon
         dogCands == IF dogRuns THEN DogCandidates(dog, moved, delta) ELSE {}
         drawn == UNION {draws(n) : n \in NPCs} \cup {Null}
     IN \E rnd \in [NPCs -> drawn],
           randomCat \in (IF dogCands = {} THEN {Null} ELSE dogCands) :
          /\ \A n \in NPCs : IF draws(n) = {} THEN rnd[n] = Null ELSE rnd[n] \in draws(n)
          /\ LET managed ==
                   IF build = "prior"
                   THEN [n \in NPCs |-> GameManagerPrior(moved[n], delta, rnd[n])]
                   ELSE IF allConvinced THEN moved
                   ELSE [n \in NPCs |-> GameManagerCurrent(moved[n], delta, rnd[n], rnd[n])]
                 cat == IF dogRuns THEN DogInteractsWith(dog, moved, delta, randomCat)
                        ELSE Null
             IN /\ dog' = IF dogRuns THEN DogManagerStep(dog, moved, delta, randomCat)
                          ELSE dog
                /\ IF cat = Null
                   THEN /\ npcs' = managed
                        /\ calls' = calls
                        /\ sent' = sent
                   ELSE /\ CanSend
                        /\ npcs' = [managed EXCEPT ![cat] = DogMessageSent(managed[cat])]
                        /\ calls' = [calls EXCEPT ![sent + 1] =
                              NewCall(cat, Append(npcs[cat].conversationHistory, DogPlainMsg),
                                      "dog")]
                        /\ sent' = sent + 1
  /\ gameWon' = WinCheck(gameWon, npcs')
  /\ UNCHANGED <<build, mounted, dogTimeouts>>

\* Variant of ToggleInteraction that leaves the other agents as they are.
ToggleOnlyClicked(npc, clicked) ==
  IF clicked
  THEN IF npc.isInteracting
       THEN IF npc.isTyping \/ (npc.responseComplete /\ npc.readTimeRemaining > 0)
            THEN npc
            ELSE [npc EXCEPT !.isInteracting = FALSE, !.responseComplete = FALSE]
       ELSE [npc EXCEPT !.isInteracting = TRUE]
  ELSE npc

\* handleNpcInteraction: a click on the agent or on its Close button.
ToggleInteraction(npc, clicked) ==
  IF clicked
  THEN IF npc.isInteracting
       THEN IF npc.isTyping \/ (npc.responseComplete /\ npc.readTimeRemaining > 0)
            THEN npc
            ELSE [npc EXCEPT !.isInteracting = FALSE, !.responseComplete = FALSE]
       ELSE [npc EXCEPT !.isInteracting = TRUE]
  ELSE [npc EXCEPT !.isInteracting = FALSE]

NpcInteraction(npcId) ==
  /\ mounted
  /\ npcs' = [n \in NPCs |-> ToggleInteraction(npcs[n], n = npcId)]
  /\ gameWon' = WinCheck(gameWon, npcs')
  /\ UNCHANGED <<build, mounted, dog, calls, sent, dogTimeouts>>

\* Variant of CloseOnGroundClick that closes every dialogue.
CloseOnGroundClickUnguarded(npc) ==
  [npc EXCEPT !.isInteracting = FALSE, !.responseComplete = FALSE]

\* handleGroundClick
CloseOnGroundClick(npc) ==
  IF npc.isInteracting
     /\ (npc.isTyping \/ (npc.responseComplete /\ npc.readTimeRemaining > 0))
  THEN npc
  ELSE [npc EXCEPT !.isInteracting = FALSE, !.responseComplete = FALSE]

GroundClick ==
  /\ mounted
  /\ npcs' = [n \in NPCs |-> CloseOnGroundClick(npcs[n])]
  /\ gameWon' = WinCheck(gameWon, npcs')
  /\ UNCHANGED <<build, mounted, dog, calls, sent, dogTimeouts>>

\* handleSendMessage, up to the call.  The form is shown while the dialogue
\* is open and is disabled while isTyping or convincedThroughDialogue.
MessageSent(npc) ==
  [npc EXCEPT !.conversationHistory = Append(npc.conversationHistory, UserMsg),
              !.isTyping = TRUE,
              !.responseComplete = FALSE,
              !.readTimeRemaining = 0]

InputEnabled(npc) ==
  npc.isInteracting /\ ~(npc.isTyping \/ npc.convincedThroughDialogue)

SendMessage(npcId) ==
  /\ mounted
  /\ InputEnabled(npcs[npcId])
  /\ CanSend
  /\ npcs' = [npcs EXCEPT ![npcId] = MessageSent(npcs[npcId])]
  /\ calls' = [calls EXCEPT ![sent + 1] =
        NewCall(npcId, Append(npcs[npcId].conversationHistory, UserMsg), "player")]
  /\ sent' = sent + 1
  /\ gameWon' = WinCheck(gameWon, npcs')
  /\ UNCHANGED <<build, mounted, dog, dogTimeouts>>

\* Variant of StreamUpdate that ends the typing with the first partial.
StreamUpdateStoppingTyping(npc, partialObject) ==
  [npc EXCEPT !.aiResponse = partialObject,
              !.isTyping = FALSE,
              !.readTimeRemaining =
                 IF partialObject.message THEN calculateReadTime(ReplyWords) ELSE 0,
              !.responseComplete = partialObject.message]

\* A partial object of the stream is merged into the agent.
StreamUpdate(npc, partialObject) ==
  [npc EXCEPT !.aiResponse = partialObject,
              !.isTyping = ~partialObject.message,
              !.readTimeRemaining =
                 IF partialObject.message THEN calculateReadTime(ReplyWords) ELSE 0,
              !.responseComplete = partialObject.message]

\* The partial objects a stream at this stage can deliver next, with the
\* stage they lead to: the trace first, then the message, then the whole
\* result.
NextPartials(stage) ==
  (IF stage \in {"sent", "thinking"} THEN {<<ThinkingPartial, "thinking">>} ELSE {})
  \cup (IF stage \in {"sent", "thinking"}
        THEN {<<ResultPartial(t), "result">> : t \in JudgeTargets}
        ELSE {})

JudgeStream(c) ==
  /\ calls[c] # NoCall
  /\ \E next \in NextPartials(calls[c].stage) :
       /\ npcs' = [npcs EXCEPT ![calls[c].npc] = StreamUpdate(npcs[calls[c].npc], next[1])]
       /\ calls' = [calls EXCEPT ![c].stage = next[2], ![c].newTarget = next[1].newTarget]
  /\ gameWon' = WinCheck(gameWon, npcs')
  /\ UNCHANGED <<build, mounted, dog, dogTimeouts, sent>>

\* Words of the text the read time is computed from; the empty text splits
\* into one empty word.
WordCount(response) == IF response.message THEN ReplyWords ELSE 1

\* Variant of CompletionMerge that also closes the dialogue.
CompletionMergeClosing(npc, conversationHistory) ==
  LET newTarget == npc.aiResponse.newTarget
      isNowConvinced == IsNumber(newTarget) /\ newTarget = TargetWaypointId
      updatedHistory ==
        Append(conversationHistory,
               IF npc.aiResponse.message THEN ReplyMsg ELSE DefaultMsg)
  IN [npc EXCEPT !.targetWaypoint = IF IsNumber(newTarget) THEN newTarget
                                    ELSE npc.targetWaypoint,
                 !.conversationHistory = updatedHistory,
                 !.isTyping = FALSE,
                 !.isInteracting = FALSE,
                 !.responseComplete = TRUE,
                 !.readTimeRemaining = calculateReadTime(WordCount(npc.aiResponse)),
                 !.convincedThroughDialogue = isNowConvinced]

\* The update applied when the stream has ended; conversationHistory is
\* the value processNPCInteraction returned for this call.
CompletionMerge(npc, conversationHistory) ==
  LET newTarget == npc.aiResponse.newTarget
      isNowConvinced == IsNumber(newTarget) /\ newTarget = TargetWaypointId
      updatedHistory ==
        Append(conversationHistory,
               IF npc.aiResponse.message THEN ReplyMsg ELSE DefaultMsg)
  IN [npc EXCEPT !.targetWaypoint = IF IsNumber(newTarget) THEN newTarget
                                    ELSE npc.targetWaypoint,
                 !.conversationHistory = updatedHistory,
                 !.isTyping = FALSE,
                 !.responseComplete = TRUE,
                 !.readTimeRemaining = calculateReadTime(WordCount(npc.aiResponse)),
                 !.convincedThroughDialogue = isNowConvinced]

\* A dog's call schedules the end of the dog's interaction when it is over.
TimeoutsAfter(call) == IF call.from = "dog" THEN dogTimeouts + 1 ELSE dogTimeouts

JudgeComplete(c) ==
  /\ calls[c] # NoCall
  /\ calls[c].stage = "result"
  /\ TimeoutsAfter(calls[c]) <= MaxSends
  /\ npcs' = [npcs EXCEPT ![calls[c].npc] =
                 CompletionMerge(npcs[calls[c].npc], calls[c].conversationHistory)]
  /\ calls' = [calls EXCEPT ![c] = NoCall]
  /\ dogTimeouts' = TimeoutsAfter(calls[c])
  /\ gameWon' = WinCheck(gameWon, npcs')
  /\ UNCHANGED <<build, mounted, dog, sent>>

\* Variant of FailureUpdate that also withdraws the persuasion.
FailureUpdateClearing(npc, sender) ==
  [npc EXCEPT !.conversationHistory =
                 Append(npc.conversationHistory,
                        IF sender = "dog" THEN DogFallbackMsg ELSE FallbackMsg),
              !.isTyping = FALSE,
              !.responseComplete = TRUE,
              !.readTimeRemaining =
                 IF sender = "dog" THEN DogErrorReadTime ELSE ErrorReadTime,
              !.convincedThroughDialogue = FALSE]

\* The catch blocks of handleSendMessage and handleDogCatInteraction.
FailureUpdate(npc, sender) ==
  [npc EXCEPT !.conversationHistory =
                 Append(npc.conversationHistory,
                        IF sender = "dog" THEN DogFallbackMsg ELSE FallbackMsg),
              !.isTyping = FALSE,
              !.responseComplete = TRUE,
              !.readTimeRemaining =
                 IF sender = "dog" THEN DogErrorReadTime ELSE ErrorReadTime]

JudgeFail(c) ==
  /\ calls[c] # NoCall
  /\ TimeoutsAfter(calls[c]) <= MaxSends
  /\ npcs' = [npcs EXCEPT ![calls[c].npc] =
                 FailureUpdate(npcs[calls[c].npc], calls[c].from)]
  /\ calls' = [calls EXCEPT ![c] = NoCall]
  /\ dogTimeouts' = TimeoutsAfter(calls[c])
  /\ gameWon' = WinCheck(gameWon, npcs')
  /\ UNCHANGED <<build, mounted, dog, sent>>

\* The timeout that ends the dog's interaction.
DogTimeout ==
  /\ dogTimeouts > 0
  /\ dog' = [dog EXCEPT !.isInteracting = FALSE]
  /\ dogTimeouts' = dogTimeouts - 1
  /\ UNCHANGED <<build, mounted, npcs, gameWon, calls, sent>>

\* Variant of RestartNpc that keeps the conversation.
RestartNpcKeepingHistory(npc, randomPosition) ==
  [npc EXCEPT !.position = randomPosition,
              !.currentWaypoint = Null,
              !.targetWaypoint = Null,
              !.isInteracting = FALSE,
              !.isConvinced = FALSE,
              !.convincedTimer = 0,
              !.dwellTime = 0,
              !.lastWaypoint = Null,
              !.snarkyComment = FALSE,
              !.isTyping = FALSE,
              !.readTimeRemaining = 0,
              !.responseComplete = FALSE,
              !.convincedThroughDialogue = FALSE]

\* handleRestart, behind the Play Again button of the win overlay.
RestartNpc(npc, randomPosition) ==
  [npc EXCEPT !.position = randomPosition,
              !.currentWaypoint = Null,
              !.targetWaypoint = Null,
              !.isInteracting = FALSE,
              !.isConvinced = FALSE,
              !.convincedTimer = 0,
              !.dwellTime = 0,
              !.lastWaypoint = Null,
              !.snarkyComment = FALSE,
              !.conversationHistory = <<>>,
              !.aiResponse = NoResponse,
              !.isTyping = FALSE,
              !.readTimeRemaining = 0,
              !.responseComplete = FALSE,
              !.convincedThroughDialogue = FALSE]

Restart ==
  /\ mounted
  /\ gameWon
  /\ \E pos \in [NPCs -> RestartPositions] :
        npcs' = [n \in NPCs |-> RestartNpc(npcs[n], pos[n])]
  /\ dog' = InitialDog
  /\ gameWon' = WinCheck(FALSE, npcs')
  /\ UNCHANGED <<build, mounted, calls, sent, dogTimeouts>>

\* The steps of a round: everything but the restart behind the win overlay
\* and the dog's timeout.
NextRound ==
  \/ InitializeNpcs
  \/ \E delta \in Deltas : Tick(delta)
  \/ \E npcId \in NPCs : NpcInteraction(npcId)
  \/ GroundClick
  \/ \E npcId \in NPCs : SendMessage(npcId)
  \/ \E c \in 1..MaxSends : JudgeStream(c)
  \/ \E c \in 1..MaxSends : JudgeComplete(c)
  \/ \E c \in 1..MaxSends : JudgeFail(c)

Next ==
  \/ NextRound
  \/ DogTimeout
  \/ Restart

\* One agent, either revision, rounds and restarts.
Spec == Init /\ [][Next]_vars

\* Two agents under the prior revision; with MaxPairSends calls no round of
\* two agents is won, so the restart is never offered.
SpecPair == InitPair /\ [][NextRound]_vars

\* ------------------------------------------------------------ properties
\* The agent is within the arrival distance of the target waypoint.
WithinArrivalOfTarget(npc) ==
  calculateDistance(npc.position, waypoints[TargetWaypointId].position)
     <= waypoints[TargetWaypointId].radius + ArriveSlack

\* C1: in every step, an agent's isConvinced turns from false to true only
\* if its convincedThroughDialogue was true before the step and still is,
\* and the agent is within the arrival distance of the target; being near
\* the target is not enough.
C1_ConvincedOnlyThroughDialogue ==
  [][\A n \in NPCs :
       (~npcs[n].isConvinced /\ npcs'[n].isConvinced)
          => /\ npcs[n].convincedThroughDialogue
             /\ npcs'[n].convincedThroughDialogue
             /\ WithinArrivalOfTarget(npcs'[n])]_vars

\* An agent has become convinced.
C1_Witness == \E n \in NPCs : npcs[n].isConvinced

\* C2: when the stream of a call for agent a ends with final newTarget t,
\* the merge sets convincedThroughDialogue to (t is a number and t is the
\* target id), sets targetWaypoint to t when t is a number and leaves it
\* when t is null.
C2_MergeFollowsFinalTarget ==
  [][\A c \in 1..MaxSends :
       JudgeComplete(c) =>
         LET a == calls[c].npc
             t == calls[c].newTarget
         IN /\ npcs'[a].convincedThroughDialogue = (IsNumber(t) /\ t = TargetWaypointId)
            /\ npcs'[a].targetWaypoint = IF IsNumber(t) THEN t ELSE npcs[a].targetWaypoint]_vars

C4_WinIsTerminal == [][gameWon => (gameWon' \/ Restart)]_vars

\* The round is won and a later tick has cleared an agent's isConvinced.
C4_Witness == gameWon /\ \E n \in NPCs : ~npcs[n].isConvinced /\ npcs[n].conversationHistory # <<>>

\* s is a prefix of t.
IsPrefix(s, t) == Len(s) <= Len(t) /\ SubSeq(t, 1, Len(s)) = s

\* C5: an agent's targetWaypoint becomes the target id only in the step of
\* a judge completion for that agent; the wandering selections (at mount,
\* at the end of a dwell, at the expiry of the convinced timer) never
\* yield the target.
C5_TargetOnlyFromJudge ==
  [][\A n \in NPCs :
       (npcs[n].targetWaypoint # TargetWaypointId
          /\ npcs'[n].targetWaypoint = TargetWaypointId)
       => \E c \in 1..MaxSends : calls[c].npc = n /\ JudgeComplete(c)]_vars

\* C6: no agent has currentWaypoint and targetWaypoint both set.
C6_OneWaypointField ==
  \A n \in NPCs : ~(npcs[n].currentWaypoint # Null /\ npcs[n].targetWaypoint # Null)

\* C7: the failure of a call for agent a appends one fallback assistant
\* line to a's history, clears isTyping, sets the fixed read time of its
\* sender, and leaves targetWaypoint, convincedThroughDialogue and
\* isConvinced as they were.
C7_FailureKeepsPersuasion ==
  [][\A c \in 1..MaxSends :
       JudgeFail(c) =>
         LET a == calls[c].npc
             before == npcs[a]
             after == npcs'[a]
         IN /\ Len(after.conversationHistory) = Len(before.conversationHistory) + 1
            /\ IsPrefix(before.conversationHistory, after.conversationHistory)
            /\ after.conversationHistory[Len(after.conversationHistory)]
                  \in {FallbackMsg, DogFallbackMsg}
            /\ ~after.isTyping
            /\ after.readTimeRemaining =
                  (IF calls[c].from = "dog" THEN DogErrorReadTime ELSE ErrorReadTime)
            /\ after.targetWaypoint = before.targetWaypoint
            /\ after.convincedThroughDialogue = before.convincedThroughDialogue
            /\ after.isConvinced = before.isConvinced]_vars

\* A call has failed after a partial with a message had been applied, for
\* an agent that was persuaded.
C7_Witness ==
  \E n \in NPCs :
    /\ npcs[n].conversationHistory # <<>>
    /\ npcs[n].conversationHistory[Len(npcs[n].conversationHistory)] = FallbackMsg
    /\ npcs[n].aiResponse.message
    /\ npcs[n].convincedThroughDialogue
    /\ npcs[n].readTimeRemaining = ErrorReadTime

\* The dialogue cannot be closed now.
DialogueProtected(npc) ==
  npc.isTyping \/ (npc.responseComplete /\ npc.readTimeRemaining > 0)

\* C8: a click on an agent whose dialogue is open, or a ground click,
\* while the agent is typing or its finished response still has read time
\* left, leaves that agent unchanged.
C8_CloseBlockedWhileProtected ==
  [][\A n \in NPCs :
       (npcs[n].isInteracting /\ DialogueProtected(npcs[n])
          /\ (NpcInteraction(n) \/ GroundClick))
       => npcs'[n] = npcs[n]]_vars

\* An open dialogue whose finished response still has read time left.
C8_Witness ==
  \E n \in NPCs : /\ npcs[n].isInteracting
                   /\ ~npcs[n].isTyping
                   /\ npcs[n].responseComplete
                   /\ npcs[n].readTimeRemaining > 0

\* C9: at most one agent has its dialogue open.
C9_OneDialogue == Cardinality({n \in NPCs : npcs[n].isInteracting}) <= 1

\* One agent's dialogue is open and another agent's was closed while it
\* was typing: no close request does that, only the opening of the other.
C9_Witness ==
  \E n, m \in NPCs : /\ n # m
                      /\ npcs[n].isInteracting
                      /\ ~npcs[m].isInteracting
                      /\ npcs[m].isTyping
                      /\ npcs[m].conversationHistory = <<UserMsg>>

\* C10: in every step but the restart, each agent's history before the
\* step is a prefix of its history after the step.
C10_HistoryAppendOnly ==
  [][Restart \/ \A n \in NPCs :
       IsPrefix(npcs[n].conversationHistory, npcs'[n].conversationHistory)]_vars

\* The agent fields the judge path assigns: the stream update, the
\* completion merge and the failure handlers.
JudgeFields ==
  {"aiResponse", "isTyping", "readTimeRemaining", "responseComplete",
   "targetWaypoint", "conversationHistory", "convincedThroughDialogue"}

AgentFields == DOMAIN InitialNpc(1)

\* A step of the judge path: a stream update, a completion or a failure.
JudgeStep ==
  \E c \in 1..MaxSends : JudgeStream(c) \/ JudgeComplete(c) \/ JudgeFail(c)

\* A rendered frame.
FrameStep == \E delta \in Deltas : Tick(delta)

\* The session under its scheduling: the frame loop keeps running, the
\* mount effect runs and a scheduled timeout fires; the player and the
\* judge service promise nothing.
SpecLive ==
  /\ Init
  /\ [][Next]_vars
  /\ WF_vars(InitializeNpcs)
  /\ WF_vars(FrameStep)
  /\ WF_vars(DogTimeout)

\* C11: the fields the frame tick writes and the fields the judge path
\* writes are disjoint: a judge step changes only the judge path's fields
\* and a tick changes none of them (a tick in which the dog delivers a
\* message is left aside: that message is a send, not a write of the tick).
C11_DisjointWriters ==
  [][/\ JudgeStep =>
          \A n \in NPCs : \A f \in AgentFields \ JudgeFields : npcs'[n][f] = npcs[n][f]
     /\ (FrameStep /\ sent' = sent) =>
          \A n \in NPCs : \A f \in JudgeFields : npcs'[n][f] = npcs[n][f]]_vars

\* The calls in flight for agent n.
InFlight(n) == {c \in 1..MaxSends : calls[c] # NoCall /\ calls[c].npc = n}

\* C12: at most one judge call is in flight for any one agent, and no step
\* starts a call for an agent that is typing or has a call in flight.
C12_CallsSerialized ==
  [][\A n \in NPCs :
       /\ Cardinality(InFlight(n)) <= 1
       /\ (\E c \in 1..MaxSends : calls[c] = NoCall /\ calls'[c] # NoCall /\ calls'[c].npc = n)
            => (~npcs[n].isTyping /\ InFlight(n) = {})]_vars

\* C13: a frame tick that finds a convinced agent outside the target's
\* zone (by its stored position, or by the position its own movement of
\* that frame gives it) clears isConvinced, convincedThroughDialogue and
\* convincedTimer, whatever the timer and whether or not a dialogue is open.
C13_EvictionOnLeaving ==
  [][\A n \in NPCs :
       (/\ FrameStep
        /\ npcs[n].isConvinced
        /\ (~AtTargetPosition(npcs[n]) \/ ~AtTargetPosition(NpcFrame(npcs[n]))))
       => /\ ~npcs'[n].isConvinced
          /\ ~npcs'[n].convincedThroughDialogue
          /\ npcs'[n].convincedTimer = 0]_vars

\* A round was won and the agent is now outside the zone, its persuasion
\* cleared with no farewell spoken: it walked out and was evicted.
C13_Witness ==
  /\ gameWon
  /\ \E n \in NPCs :
       /\ ~npcs[n].isConvinced
       /\ ~npcs[n].convincedThroughDialogue
       /\ npcs[n].convincedTimer = 0
       /\ ~AtTargetPosition(npcs[n])
       /\ \A i \in DOMAIN npcs[n].conversationHistory :
            npcs[n].conversationHistory[i] # FarewellMsg

\* C14: for a convinced agent whose dialogue is closed and that is still at
\* the target after its movement of the frame, a tick with time delta either
\* lowers convincedTimer by delta (timer still positive afterwards), or, when
\* the timer would reach 0 or below, clears isConvinced and
\* convincedThroughDialogue, sets convincedTimer to 0, appends exactly one
\* farewell line to the history and sets targetWaypoint to a non-target
\* waypoint.
C14_TimerAndExpiry ==
  [][\A n \in NPCs : \A delta \in Deltas :
       (/\ Tick(delta)
        /\ npcs[n].isConvinced
        /\ ~npcs[n].isInteracting
        /\ AtTargetPosition(NpcFrame(npcs[n])))
       => IF npcs[n].convincedTimer - delta > 0
          THEN /\ npcs'[n].convincedTimer = npcs[n].convincedTimer - delta
               /\ npcs'[n].isConvinced
               /\ npcs'[n].conversationHistory = npcs[n].conversationHistory
          ELSE /\ ~npcs'[n].isConvinced
               /\ ~npcs'[n].convincedThroughDialogue
               /\ npcs'[n].convincedTimer = 0
               /\ npcs'[n].conversationHistory =
                    Append(npcs[n].conversationHistory, FarewellMsg)
               /\ npcs'[n].targetWaypoint \in NonTargetIds]_vars

\* The convinced timer has run out: the farewell is the last line of the
\* history and the agent is headed for an ordinary waypoint.
C14_Witness ==
  \E n \in NPCs :
    /\ npcs[n].conversationHistory # <<>>
    /\ npcs[n].conversationHistory[Len(npcs[n].conversationHistory)] = FarewellMsg
    /\ ~npcs[n].isConvinced
    /\ npcs[n].convincedTimer = 0
    /\ npcs[n].targetWaypoint \in NonTargetIds

\* C15: for an agent whose dialogue is open with responseComplete true and
\* readTimeRemaining > 0, a tick with time delta lowers readTimeRemaining by
\* delta (not below 0), and when it reaches 0 with isTyping false the tick
\* closes the dialogue.
C15_ReadCountdown ==
  [][\A n \in NPCs : \A delta \in Deltas :
       (/\ Tick(delta)
        /\ npcs[n].isInteracting
        /\ npcs[n].responseComplete
        /\ npcs[n].readTimeRemaining > 0)
       => /\ npcs'[n].readTimeRemaining = Max(0, npcs[n].readTimeRemaining - delta)
          /\ (npcs'[n].readTimeRemaining = 0 /\ ~npcs[n].isTyping)
               => ~npcs'[n].isInteracting]_vars

\* The agent is not typing and has no read time pending.
Closable(npc) == ~npc.isTyping /\ ~(npc.responseComplete /\ npc.readTimeRemaining > 0)

\* C16: closing is idempotent on an agent that is not typing and has no
\* pending read time: after a close request on an open dialogue
\* (handleNpcInteraction) or a ground click (handleGroundClick), the same
\* request applied once more leaves the agents as they are.
C16_CloseIdempotent ==
  [][/\ \A id \in NPCs :
          (NpcInteraction(id) /\ npcs[id].isInteracting /\ Closable(npcs[id]))
          => [m \in NPCs |-> ToggleInteraction(npcs'[m], m = id)] = npcs'
     /\ (GroundClick /\ \A n \in NPCs : Closable(npcs[n]))
          => [m \in NPCs |-> CloseOnGroundClick(npcs'[m])] = npcs']_vars

\* C17: right after a restart every agent has isInteracting, isConvinced,
\* convincedThroughDialogue, isTyping and responseComplete false, its timers
\* at zero, an empty history and no response; gameWon is false and the dog
\* is in its initial state.
C17_RestartResets ==
  [][Restart =>
       /\ \A n \in NPCs :
            /\ ~npcs'[n].isInteracting
            /\ ~npcs'[n].isConvinced
            /\ ~npcs'[n].convincedThroughDialogue
            /\ ~npcs'[n].isTyping
            /\ ~npcs'[n].responseComplete
            /\ npcs'[n].convincedTimer = 0
            /\ npcs'[n].dwellTime = 0
            /\ npcs'[n].readTimeRemaining = 0
            /\ npcs'[n].conversationHistory = <<>>
            /\ npcs'[n].aiResponse = NoResponse
       /\ ~gameWon'
       /\ dog'.targetCatId = Null
       /\ ~dog'.isInteracting
       /\ dog'.messageTimer = 0
       /\ dog'.cooldownTimer = 0
       /\ dog' = InitialDog]_vars

\* A round in which messages were sent has been restarted: the agents have
\* no history and no waypoint, and the round is not won.
C17_Witness ==
  /\ mounted
  /\ sent > 0
  /\ ~gameWon
  /\ dog = InitialDog
  /\ \A n \in NPCs : /\ npcs[n].conversationHistory = <<>>
                      /\ npcs[n].targetWaypoint = Null
                      /\ npcs[n].position \in RestartPositions

\* The state a restart leaves an agent in: no waypoint to go to and none
\* to dwell at.
WithoutWaypoint(npc) == npc.targetWaypoint = Null /\ npc.currentWaypoint = Null

\* C18: after a restart every agent is again given a waypoint: whenever the
\* agents of the mounted session have neither a targetWaypoint nor a
\* waypoint they dwell at, as a restart leaves them, they eventually have a
\* targetWaypoint.
C18_ReselectionAfterRestart ==
  (mounted /\ \A n \in NPCs : WithoutWaypoint(npcs[n]))
     ~> (\A n \in NPCs : npcs[n].targetWaypoint # Null)

\* C19: the dog takes a target (targetCatId becomes an agent id, or the dog
\* without a target starts an interaction within one tick) only in a frame
\* tick in which it is not interacting and its cooldownTimer, as that tick
\* has lowered it, is <= 0, and the agent chosen is then not convinced, not
\* in a dialogue with the player and not convincedThroughDialogue; in a
\* tick that finds the dog without a target and no agent eligible,
\* targetCatId stays null and the dog does not move.
C19_DogAcquisition ==
  [][/\ (\/ (dog'.targetCatId # dog.targetCatId /\ dog'.targetCatId # Null)
         \/ (dog.targetCatId = Null /\ ~dog.isInteracting /\ dog'.isInteracting))
          => LET chosen == IF dog'.targetCatId # Null THEN dog'.targetCatId
                           ELSE calls'[sent'].npc
             IN /\ FrameStep
                /\ dog.targetCatId = Null
                /\ ~dog.isInteracting
                /\ \E delta \in Deltas : DogTimers(dog, delta).cooldownTimer <= 0
                /\ chosen \in NPCs
                /\ ~npcs[chosen].isConvinced
                /\ ~npcs[chosen].isInteracting
                /\ ~npcs[chosen].convincedThroughDialogue
     /\ (FrameStep /\ dog.targetCatId = Null /\ availableCats(npcs) = {})
          => (dog'.targetCatId = Null /\ dog'.position = dog.position)]_vars

\* The dog, its cooldown over, has chosen an agent it had spoken to before
\* and speaks to it again.
C19_Witness ==
  /\ dog.isInteracting
  /\ dog.cooldownTimer = DogLongCooldown
  /\ \E c \in 1..MaxSends :
       /\ calls[c] # NoCall
       /\ calls[c].from = "dog"
       /\ calls[c].stage = "sent"
       /\ \E i \in 1..(Len(calls[c].conversationHistory) - 1) :
            calls[c].conversationHistory[i] = DogPlainMsg

\* C20: whenever the dog's isInteracting flag is true it later becomes false
\* again, also when the judge call the dog started neither completes nor
\* fails.
C20_DogInteractionEnds == dog.isInteracting ~> ~dog.isInteracting

\* The agent has been persuaded and is on its way: convincedThroughDialogue
\* is true, targetWaypoint is the target, the dialogue is closed.
PersuadedOnItsWay(npc) ==
  /\ npc.convincedThroughDialogue
  /\ npc.targetWaypoint = TargetWaypointId
  /\ ~npc.isInteracting
  /\ ~npc.isConvinced

\* C21: persuasion leads to arrival: a frame tick never takes the target
\* away from a persuaded agent whose dialogue is closed; after the tick the
\* agent still has the target as targetWaypoint, or it has arrived and
\* isConvinced is true.
C21_PersuasionLeadsToArrival ==
  [][\A n \in NPCs :
       (FrameStep /\ PersuadedOnItsWay(npcs[n]))
       => \/ npcs'[n].isConvinced
          \/ /\ npcs'[n].targetWaypoint = TargetWaypointId
             /\ npcs'[n].convincedThroughDialogue]_vars

\* C22: in the tick in which a persuaded agent whose dialogue is closed is
\* within the arrival distance of the target, the agent becomes convinced
\* with convincedTimer at the stay duration; it does not start a dwell and
\* no new waypoint is selected.
C22_ArrivalConvinces ==
  [][\A n \in NPCs :
       (/\ FrameStep
        /\ PersuadedOnItsWay(npcs[n])
        /\ WithinArrivalOfTarget(NpcFrame(npcs[n])))
       => /\ npcs'[n].isConvinced
          /\ npcs'[n].convincedTimer = StayDuration
          /\ npcs'[n].dwellTime = 0
          /\ npcs'[n].targetWaypoint = TargetWaypointId
          /\ npcs'[n].currentWaypoint = npcs[n].currentWaypoint]_vars

\* The fields of an agent that the frame loop and the clicks own.
MovementFields == {"position", "currentWaypoint", "lastWaypoint", "dwellTime",
                   "isConvinced", "convincedTimer", "isInteracting"}

\* C23: a step of the judge path for an agent (stream update, completion,
\* failure) leaves every other agent as it is and leaves that agent's
\* position, currentWaypoint, lastWaypoint, dwellTime, isConvinced,
\* convincedTimer and isInteracting as they are.
C23_JudgeLeavesMovement ==
  [][\A c \in 1..MaxSends :
       (JudgeStream(c) \/ JudgeComplete(c) \/ JudgeFail(c))
       => \A n \in NPCs :
            IF n = calls[c].npc
            THEN \A f \in MovementFields : npcs'[n][f] = npcs[n][f]
            ELSE npcs'[n] = npcs[n]]_vars

\* A call for one agent has been answered after frames had moved both that
\* agent and another one.
C23_Witness ==
  \E n, m \in NPCs :
    /\ n # m
    /\ Len(npcs[n].conversationHistory) > 1
    /\ npcs[n].conversationHistory[Len(npcs[n].conversationHistory)]
         \in {ReplyMsg, DefaultMsg}
    /\ npcs[n].position # InitialPosition(n)
    /\ npcs[m].position # InitialPosition(m)

\* The fields a frame tick leaves alone while the dialogue is open.
FrozenFields == {"position", "currentWaypoint", "targetWaypoint", "lastWaypoint",
                 "dwellTime", "convincedTimer"}

\* C24: a frame tick leaves the position, currentWaypoint, targetWaypoint,
\* lastWaypoint, dwellTime and convincedTimer of an agent whose
\* isInteracting is true as they are.
C24_InteractingFrozen ==
  [][\A n \in NPCs :
       (FrameStep /\ npcs[n].isInteracting)
       => \A f \in FrozenFields : npcs'[n][f] = npcs[n][f]]_vars

\* A frame has counted down the read time of an open dialogue whose agent
\* is still away from the waypoint it is headed for.
C24_Witness ==
  \E n \in NPCs :
    /\ npcs[n].isInteracting
    /\ npcs[n].responseComplete
    /\ npcs[n].readTimeRemaining = ErrorReadTime - FrameDelta
    /\ npcs[n].targetWaypoint \in WaypointIds
    /\ calculateDistance(npcs[n].position, waypoints[npcs[n].targetWaypoint].position)
         > waypoints[npcs[n].targetWaypoint].radius + ArriveSlack

\* C25: no step other than the read-time auto-close of a frame tick and the
\* restart closes a dialogue that is protected (the agent is typing, or its
\* response is complete with read time left); in particular opening the
\* dialogue of another agent does not.
C25_ProtectedAgainstEveryStep ==
  [][\A n \in NPCs :
       (/\ npcs[n].isInteracting
        /\ DialogueProtected(npcs[n])
        /\ ~npcs'[n].isInteracting)
       => \/ Restart
          \/ /\ FrameStep
             /\ ~npcs[n].isTyping
             /\ npcs'[n].readTimeRemaining = 0]_vars

\* The agent is one the dog must not address: in a dialogue with the
\* player, convinced, or persuaded already.
Ineligible(npc) == npc.isInteracting \/ npc.isConvinced \/ npc.convincedThroughDialogue

\* C26: in a tick that finds the dog's target interacting with the player,
\* convinced or convincedThroughDialogue, the dog clears targetCatId, takes
\* the short cooldown, does not move and starts no interaction; and a tick
\* in which the dog starts a judge call does so for an agent that is none
\* of these.
C26_DogAbandonsIneligible ==
  [][/\ (/\ FrameStep
         /\ dog.targetCatId # Null
         /\ Ineligible(npcs[dog.targetCatId]))
          => /\ dog'.targetCatId = Null
             /\ dog'.cooldownTimer = DogShortCooldown
             /\ dog'.position = dog.position
             /\ ~dog'.isInteracting
             /\ sent' = sent
     /\ (FrameStep /\ sent' # sent)
          => /\ calls'[sent'].from = "dog"
             /\ ~Ineligible(npcs[calls'[sent'].npc])]_vars

\* The dog has given up a target the player started to talk to, before any
\* message was sent: it has no target and the short cooldown.
C26_Witness ==
  /\ sent = 0
  /\ dog.targetCatId = Null
  /\ dog.cooldownTimer = DogShortCooldown
  /\ ~dog.isInteracting
  /\ dog.position # DogStart
  /\ \E n \in NPCs : npcs[n].isInteracting

\* C27: in the tick in which the dog is within reach of its eligible
\* target, the dog sets isInteracting, shows a message with its display
\* timer, takes the long cooldown, clears targetCatId and starts exactly one
\* judge call for that agent; the call is still unanswered when the tick
\* ends.
C27_DogInteractsInOneTick ==
  [][(/\ FrameStep
      /\ ~gameWon
      /\ ~dog.isInteracting
      /\ dog.targetCatId # Null
      /\ ~Ineligible(npcs[dog.targetCatId])
      /\ calculateDistance(dog.position, npcs[dog.targetCatId].position) < DogReach
      /\ calculateDistance(dog.position, NpcFrame(npcs[dog.targetCatId]).position) < DogReach)
     => /\ dog'.isInteracting
        /\ dog'.currentMessage
        /\ dog'.messageTimer = DogMessageTime
        /\ dog'.cooldownTimer = DogLongCooldown
        /\ dog'.targetCatId = Null
        /\ dog'.position = dog.position
        /\ sent' = sent + 1
        /\ calls'[sent'].npc = dog.targetCatId
        /\ calls'[sent'].from = "dog"
        /\ calls'[sent'].stage = "sent"
        /\ \A c \in 1..MaxSends : c # sent' => calls'[c] = calls[c]
        /\ npcs'[dog.targetCatId].isTyping]_vars

\* The dog has walked up to its target and spoken to it for the first
\* time; the judge has not answered yet.
C27_Witness ==
  /\ sent = 1
  /\ dog.isInteracting
  /\ dog.currentMessage
  /\ dog.messageTimer = DogMessageTime
  /\ dog.cooldownTimer = DogLongCooldown
  /\ dog.targetCatId = Null
  /\ dog.position # DogStart
  /\ calls[1] # NoCall
  /\ calls[1].from = "dog"
  /\ calls[1].stage = "sent"

\* C28: a message the dog delivered stands in the agent's history marked
\* as the dog's, while its call is in flight and after it: no history holds
\* the dog's text as a plain user message.
C28_DogMessageAttributed ==
  \A n \in NPCs : \A i \in DOMAIN npcs[n].conversationHistory :
    npcs[n].conversationHistory[i] # DogPlainMsg

DistTo(npc, w) == calculateDistance(npc.position, waypoints[w].position)

\* The agent is headed for waypoint w, its dialogue closed, not convinced.
Walking(npc, w) == npc.targetWaypoint = w /\ ~npc.isInteracting /\ ~npc.isConvinced

\* C30: an agent headed for an existing waypoint, not interacting and not
\* convinced, reaches it: every tick either brings it closer with the
\* waypoint still its target, or finds it within the arrival distance and
\* makes it dwell there (or, at the target, convinced).
C30_WalkReachesWaypoint ==
  [][\A n \in NPCs : \A w \in WaypointIds :
       (FrameStep /\ Walking(npcs[n], w))
       => \/ /\ npcs'[n].targetWaypoint = w
             /\ DistTo(npcs'[n], w) < DistTo(npcs[n], w)
          \/ /\ DistTo(npcs'[n], w) <= waypoints[w].radius + ArriveSlack
             /\ (npcs'[n].currentWaypoint = w \/ npcs'[n].isConvinced)]_vars

\* The agent dwells at waypoint w: it is there with no destination, its
\* dialogue closed.
Dwelling(npc, w) ==
  /\ npc.currentWaypoint = w
  /\ npc.targetWaypoint = Null
  /\ ~npc.isInteracting
  /\ ~npc.isConvinced

\* C31: the dwell cycle.  The tick in which an agent arrives at the
\* ordinary waypoint W it walks to (it is inside the radius, or the tick
\* ends the walk) gives it currentWaypoint = W, no targetWaypoint and a
\* positive dwell timer; a tick that finds it dwelling with its dialogue
\* closed lowers the timer, and the tick in which the timer reaches 0 or
\* below gives it a targetWaypoint other than W, ends the dwell and stores W
\* as lastWaypoint.
C31_DwellCycle ==
  [][\A n \in NPCs : \A w \in NonTargetIds : \A delta \in Deltas :
       /\ (/\ Tick(delta)
           /\ Walking(npcs[n], w)
           /\ npcs[n].currentWaypoint = Null
           /\ \/ DistTo(NpcFrame(npcs[n]), w) < waypoints[w].radius
              \/ npcs'[n].targetWaypoint # w)
          => /\ npcs'[n].currentWaypoint = w
             /\ npcs'[n].targetWaypoint = Null
             /\ npcs'[n].dwellTime > 0
       /\ (Tick(delta) /\ Dwelling(npcs[n], w) /\ npcs[n].dwellTime > 0)
          => IF npcs[n].dwellTime - delta > 0
             THEN /\ npcs'[n].dwellTime = npcs[n].dwellTime - delta
                  /\ npcs'[n].currentWaypoint = w
             ELSE /\ npcs'[n].targetWaypoint \in WaypointIds \ {w}
                  /\ npcs'[n].currentWaypoint = Null
                  /\ npcs'[n].lastWaypoint = w]_vars

\* The waypoint the agent is at when its dwell ends: the current revision
\* keeps it in currentWaypoint, the prior one in targetWaypoint.
WaypointAt(npc) == IF build = "prior" THEN npc.targetWaypoint ELSE npc.currentWaypoint

\* C32: the selection at the end of a dwell (a tick that gives an agent that
\* is not convinced another targetWaypoint) returns a waypoint that is not
\* the target, not the waypoint the agent is at and not its lastWaypoint
\* when there is one, and otherwise an ordinary waypoint other than the one
\* the agent is at.
C32_ReselectionExcludes ==
  [][\A n \in NPCs :
       (/\ FrameStep
        /\ ~npcs[n].isConvinced
        /\ npcs'[n].targetWaypoint # npcs[n].targetWaypoint
        /\ npcs'[n].targetWaypoint # Null)
       => LET preferred == NonTargetIds \ {WaypointAt(npcs[n]), npcs[n].lastWaypoint}
          IN IF preferred # {}
             THEN npcs'[n].targetWaypoint \in preferred
             ELSE npcs'[n].targetWaypoint \in NonTargetIds \ {WaypointAt(npcs[n])}]_vars

\* C33: a convinced agent whose convincedTimer is at or below 5 seconds has
\* a snarkyComment, and an agent that is not convinced (never was, or whose
\* convinced state an expiry, an eviction or a restart has cleared) has
\* none.
C33_SnarkyWhenLow ==
  \A n \in NPCs :
    /\ (npcs[n].isConvinced /\ npcs[n].convincedTimer <= SnarkyThreshold)
         => npcs[n].snarkyComment
    /\ ~npcs[n].isConvinced => ~npcs[n].snarkyComment

\* A convinced agent's timer has run down to the last seconds and the
\* comment is shown.
C33_Witness ==
  \E n \in NPCs :
    /\ npcs[n].isConvinced
    /\ npcs[n].convincedTimer <= SnarkyThreshold
    /\ npcs[n].convincedTimer > 0
    /\ npcs[n].snarkyComment

\* C34: one frame brings a walking agent closer to the waypoint it walks to
\* by no more than its speed, the NPC's own frame callback and the
\* GameManager's update counted together.
C34_StridePerFrame ==
  [][\A n \in NPCs : \A w \in WaypointIds :
       (FrameStep /\ Walking(npcs[n], w))
       => DistTo(npcs[n], w) - DistTo(npcs'[n], w) <= NpcSpeed]_vars

\* The agent's targetWaypoint is an id no configured waypoint has.
UnresolvedTarget(npc) ==
  npc.targetWaypoint # Null /\ npc.targetWaypoint \notin WaypointIds

\* The current revision's update looks at the waypoint the agent dwells at
\* before it looks at targetWaypoint.
DwellsNow(npc) == build = "current" /\ npc.currentWaypoint # Null

\* What a tick leaves of an agent it does not update: the agent as it was,
\* or as it was with the message the dog delivers in that tick.
LeftAlone(before, after) ==
  \/ after = before
  \/ sent' # sent /\ after = DogMessageSent(before)

C36_WaypointsResolvable ==
  \A n \in NPCs :
    /\ npcs[n].targetWaypoint \in WaypointIds \cup {Null}
    /\ npcs[n].currentWaypoint \in WaypointIds \cup {Null}

\* C37: an agent that is convinced is convincedThroughDialogue; no judge
\* completion clears the one and leaves the other set.
C37_ConvincedImpliesThroughDialogue ==
  \A n \in NPCs : npcs[n].isConvinced => npcs[n].convincedThroughDialogue

\* C38: an agent is convinced exactly when its convincedTimer is above 0:
\* the timer is set when isConvinced is set and is 0 after every step that
\* clears isConvinced.
C38_ConvincedIffTimer ==
  \A n \in NPCs : npcs[n].isConvinced <=> npcs[n].convincedTimer > 0

\* A convinced agent's timer is at its last value above 0: the next tick
\* at the target is the expiry.
C38_Witness ==
  \E n \in NPCs :
    /\ npcs[n].isConvinced
    /\ npcs[n].convincedTimer > 0
    /\ npcs[n].convincedTimer <= FrameDelta

\* C39: the dog's states exclude one another: while it is interacting it
\* has no target, and while it has a target it is not interacting and its
\* cooldownTimer is at or below 0.
C39_DogStatesExclusive ==
  /\ dog.isInteracting => dog.targetCatId = Null
  /\ dog.targetCatId # Null => (~dog.isInteracting /\ dog.cooldownTimer <= 0)

\* The dog is still in the interaction it started, its cooldown already
\* over: it could seek again but for the open interaction.
C39_Witness ==
  /\ dog.isInteracting
  /\ dog.targetCatId = Null
  /\ dog.cooldownTimer <= 0
  /\ sent > 0

\* Call c was issued in an earlier round: it is in flight for an agent
\* whose history is empty.  Every send appends the message to the history,
\* and only the restart empties a history.
IssuedBeforeRestart(c) ==
  calls[c] # NoCall /\ npcs[calls[c].npc].conversationHistory = <<>>

\* C40: a stream update, the completion or the failure of a call that was
\* in flight at the restart changes nothing of the new round: the agent's
\* history stays empty and its convincedThroughDialogue, isTyping,
\* responseComplete and targetWaypoint stay as they are.
C40_OldCallsIgnored ==
  [][\A c \in 1..MaxSends :
       (IssuedBeforeRestart(c) /\ (JudgeStream(c) \/ JudgeComplete(c) \/ JudgeFail(c)))
       => LET a == calls[c].npc
          IN /\ npcs'[a].conversationHistory = <<>>
             /\ npcs'[a].convincedThroughDialogue = npcs[a].convincedThroughDialogue
             /\ npcs'[a].isTyping = npcs[a].isTyping
             /\ npcs'[a].responseComplete = npcs[a].responseComplete
             /\ npcs'[a].targetWaypoint = npcs[a].targetWaypoint]_vars

====
